---- MODULE Spec2Model ----
(***************************************************************************)
(* Bulk import pipeline of foretagsinfo-mcp.                               *)
(*                                                                         *)
(*   scripts/import-simple.py      Parquet -> batched upsert               *)
(*   scripts/parquet-to-csv.py     Parquet -> CSV (NaN written as \N)      *)
(*   scripts/import-csv-direct.py  CSV -> COPY FROM STDIN in one           *)
(*                                 transaction                             *)
(*                                                                         *)
(* A cell of a data frame is None, NaN or a string; a string is a sequence *)
(* of one-character strings, so that splitting at "$" and the comparison   *)
(* with the two-character token \N are computed, not assumed.              *)
(***************************************************************************)
EXTENDS Integers, Sequences, FiniteSets, TLC

\* ------------------------------------------------------------------ bounds
MaxRows == 3
MaxBatchSize == 3

\* ------------------------------------------------------------------ cells
None == [t |-> "None", s |-> <<>>]
NaN  == [t |-> "NaN",  s |-> <<>>]
Null == [t |-> "NULL", s |-> <<>>]
Int0 == [t |-> "int",  s |-> <<>>]
Str(chars) == [t |-> "str", s |-> chars]

Empty    == Str(<<>>)
NullTok  == <<"\\", "N">>
BackslashN == Str(NullTok)

\* Column names of the snapshot file and their lower-cased form.
RawKey   == "Organisationsidentitet"
RawName  == "Organisationsnamn"
INDEX    == "__index_level_0__"
KEY      == "organisationsidentitet"
NAME     == "organisationsnamn"
Fields   == {KEY, NAME}

\* df.columns.str.lower()
lower(c) == CASE c = RawKey  -> KEY
              [] c = RawName -> NAME
              [] OTHER       -> c

\* Python's v == v : False only for NaN.
EqSelf(v) == v.t # "NaN"

\* df.replace({np.nan: None}) on one cell.
ReplaceNaN(v) == IF v.t = "NaN" THEN None ELSE v

\* Index of the first "$" of a string, 0 when there is none.
RECURSIVE FirstDollar(_, _)
FirstDollar(chars, j) ==
    IF j > Len(chars) THEN 0
    ELSE IF chars[j] = "$" THEN j
    ELSE FirstDollar(chars, j + 1)

\* Series.str.split('$').str[0] on one cell: the part before the first "$";
\* the .str accessor yields NaN for every cell that is not a string.
SplitDollar(v) ==
    IF v.t # "str" THEN NaN
    ELSE LET d == FirstDollar(v.s, 1)
         IN  IF d = 0 THEN v ELSE Str(SubSeq(v.s, 1, d - 1))

\* ------------------------------------------------------------------ input
KeyCells  == {None, Empty, Str(<<"1">>)}
NameCells == {NaN, BackslashN, Str(<<"a", "$", "1">>)}

RawRows(hasIndex) ==
    IF hasIndex
    THEN [Organisationsidentitet : KeyCells, Organisationsnamn : NameCells,
          __index_level_0__ : {Int0}]
    ELSE [Organisationsidentitet : KeyCells, Organisationsnamn : NameCells]

RawColumns(hasIndex) ==
    IF hasIndex THEN {RawKey, RawName, INDEX} ELSE {RawKey, RawName}

Parquets ==
    UNION { { [columns |-> RawColumns(h), rows |-> rs] :
                rs \in UNION { [1..n -> RawRows(h)] : n \in 0..MaxRows } } :
            h \in BOOLEAN }

VARIABLES
    parquet,        \* data/bolagsverket_data.parquet
    BATCH_SIZE,     \* configured chunk size
    pc,             \* position of the running script
    run,            \* "first" or "second" invocation of main()
    df,             \* the cleaned data frame (sequence of rows)
    total_rows, total_batches, imported, errors,
    i,              \* loop variable of range(0, total_rows, BATCH_SIZE)
    sink,           \* table companies: a sequence of rows over Fields
    calls,          \* one entry per upsert call of this run, as printed
    prev,           \* the table when this run began, the errors of the run before
    csv,            \* data/bolagsverket_data.csv
    txn,            \* rows of the open transaction, not yet committed
    copied,         \* data lines the COPY has read so far
    count,          \* result of the verification read
    failed_at,      \* where the exception that ended the script was raised
    progress        \* whole part of the percentage line 79 printed last

simpleVars == <<df, total_rows, total_batches, imported, errors, i, calls,
                progress>>
copyVars   == <<csv, txn, copied, count, failed_at>>

vars == <<parquet, BATCH_SIZE, pc, run, df, total_rows, total_batches,
          imported, errors, i, sink, calls, prev, csv, txn, copied, count,
          failed_at, progress>>

\* ------------------------------------------------------------------ helpers
Min(a, b) == IF a < b THEN a ELSE b

\* Lines 33-35, 42, 45-46 on one row of the snapshot.
CleanRow(columns, raw) ==
    LET cols  == {lower(c) : c \in columns}
        kept  == IF INDEX \in cols THEN cols \ {INDEX} ELSE cols
        cell(f) == ReplaceNaN(raw[CHOOSE c \in columns : lower(c) = f])
    IN  [f \in kept |->
            IF f = NAME /\ NAME \in kept THEN SplitDollar(cell(f)) ELSE cell(f)]

\* Lines 60-64: the dict sent for one row keeps the cells that are neither
\* None nor NaN.
KeepCellMutant(v) == TRUE
KeepCell(v) == v # None /\ EqSelf(v)

Record(row) == [f \in {g \in DOMAIN row : KeepCell(row[g])} |-> row[f]]

\* Lines 58-66: rows whose dict is empty are left out.
KeepRecordMutant(record) == TRUE
KeepRecord(record) == DOMAIN record # {}

RECURSIVE BuildRecords(_)
BuildRecords(batch) ==
    IF batch = <<>> THEN <<>>
    ELSE LET record == Record(Head(batch))
         IN  (IF KeepRecord(record) THEN <<record>> ELSE <<>>)
             \o BuildRecords(Tail(batch))

\* df.iloc[i:i+BATCH_SIZE] with a zero-based i.
SliceMutant(rows, from, size) == SubSeq(rows, from + 1, Min(from + size, Len(rows)) - 1)
Slice(rows, from, size) == SubSeq(rows, from + 1, Min(from + size, Len(rows)))

\* ------------------------------------------------------------------ sink
\* supabase.table('companies').upsert(records, on_conflict=KEY): one
\* INSERT ... ON CONFLICT (KEY) DO UPDATE over the columns named by the
\* payload; a column of the payload that a record lacks is written as NULL,
\* a column outside the payload keeps the stored value.
Columns(records) == UNION {DOMAIN records[j] : j \in 1..Len(records)}

BlankRow == [f \in Fields |-> Null]

Written(rec, cols, old) ==
    [f \in Fields |-> IF f \in DOMAIN rec THEN rec[f]
                      ELSE IF f \in cols THEN Null ELSE old[f]]

HasKey(table, k) == \E j \in 1..Len(table) : table[j][KEY] = k

UpsertOneMutant(table, rec, cols) == Append(table, Written(rec, cols, BlankRow))
UpsertOne(table, rec, cols) ==
    IF HasKey(table, rec[KEY])
    THEN [j \in 1..Len(table) |->
            IF table[j][KEY] = rec[KEY] THEN Written(rec, cols, table[j])
            ELSE table[j]]
    ELSE Append(table, Written(rec, cols, BlankRow))

RECURSIVE UpsertFrom(_, _, _)
UpsertFrom(table, records, cols) ==
    IF records = <<>> THEN table
    ELSE UpsertFrom(UpsertOne(table, Head(records), cols), Tail(records), cols)

Upsert(table, records) == UpsertFrom(table, records, Columns(records))

\* The statement cannot succeed when a record has no conflict key (the key
\* column is non-null) or when two records of it carry the same key.
MustReject(records) ==
    \/ \E j \in 1..Len(records) : KEY \notin DOMAIN records[j]
    \/ \E j, k \in 1..Len(records) :
          j # k /\ records[j][KEY] = records[k][KEY]

\* ------------------------------------------------------------------ actions
\* The CSV file before parquet-to-csv.py has written it.
NoFile == [header |-> <<>>, lines |-> <<>>]

\* A row an earlier load has left in the table.
OldRow == [f \in Fields |-> IF f = KEY THEN Str(<<"1">>) ELSE Str(<<"z">>)]
Tables == {<<>>, <<OldRow>>}

\* Before a script is started: the snapshot file is there, the table is
\* empty or holds an earlier load, and either import-simple.py or
\* parquet-to-csv.py (followed by import-csv-direct.py) is run.
InitWith(files, scripts, tables) ==
    /\ parquet \in files
    /\ BATCH_SIZE \in 1..MaxBatchSize
    /\ pc \in scripts
    /\ sink \in tables
    /\ run = "first"
    /\ df = <<>>
    /\ total_rows = 0
    /\ total_batches = 0
    /\ imported = 0
    /\ errors = 0
    /\ i = 0
    /\ calls = <<>>
    /\ prev = [sink |-> sink, errors |-> 0]
    /\ csv = NoFile
    /\ txn = <<>>
    /\ copied = 0
    /\ count = <<>>
    /\ failed_at = ""
    /\ progress = 0

Init == InitWith(Parquets, {"start", "convert"}, Tables)

\* import-simple.py lines 27-51.
Load ==
    /\ pc = "start"
    /\ df' = [j \in 1..Len(parquet.rows) |->
                CleanRow(parquet.columns, parquet.rows[j])]
    /\ total_rows' = Len(parquet.rows)
    /\ total_batches' = (Len(parquet.rows) + BATCH_SIZE - 1) \div BATCH_SIZE
    /\ imported' = 0
    /\ errors' = 0
    /\ i' = 0
    /\ calls' = <<>>
    /\ progress' = 0
    /\ pc' = "loop"
    /\ UNCHANGED <<parquet, BATCH_SIZE, run, sink, prev, copyVars>>

\* What line 68 prints and the call of lines 72-75 carries.
Call(ok) ==
    LET batch   == Slice(df, i, BATCH_SIZE)
        records == BuildRecords(batch)
    IN  [batch_num |-> (i \div BATCH_SIZE) + 1,
         batch     |-> batch,
         records   |-> records,
         ok        |-> ok]

\* Line 77.
CountedMutant(n, records) == n + BATCH_SIZE
Counted(n, records) == n + Len(records)

\* Line 78, cut to whole percent.
Percent(n, total) == (n * 100) \div total

\* One iteration whose upsert call returns: lines 53-79.
BatchOk ==
    /\ pc = "loop"
    /\ i < total_rows
    /\ LET c == Call(TRUE)
       IN  /\ ~MustReject(c.records)
           /\ sink' = Upsert(sink, c.records)
           /\ imported' = Counted(imported, c.records)
           /\ progress' = Percent(Counted(imported, c.records), total_rows)
           /\ calls' = Append(calls, c)
    /\ i' = i + BATCH_SIZE
    /\ UNCHANGED <<parquet, BATCH_SIZE, pc, run, df, total_rows,
                   total_batches, errors, prev, copyVars>>

\* Lines 81-83.
OnErrorMutant(n) == n
OnError(n) == n + 1

\* One iteration whose upsert call raises: lines 53-75, 81-83.  The call
\* is rejected as a whole, so the table is as before.
BatchFail ==
    /\ pc = "loop"
    /\ i < total_rows
    /\ errors' = OnError(errors)
    /\ calls' = Append(calls, Call(FALSE))
    /\ i' = i + BATCH_SIZE
    /\ UNCHANGED <<parquet, BATCH_SIZE, pc, run, df, total_rows,
                   total_batches, imported, sink, prev, copyVars, progress>>

\* Lines 85-89: the loop is exhausted and the summary is printed.
Summary ==
    /\ pc = "loop"
    /\ i >= total_rows
    /\ pc' = "done"
    /\ UNCHANGED <<parquet, BATCH_SIZE, run, simpleVars, sink, prev,
                   copyVars>>

\* Lines 91-92 once more: the script is started again over the same file.
Rerun ==
    /\ pc = "done"
    /\ run = "first"
    /\ run' = "second"
    /\ prev' = [sink |-> sink, errors |-> errors]
    /\ pc' = "start"
    /\ df' = <<>>
    /\ total_rows' = 0
    /\ total_batches' = 0
    /\ imported' = 0
    /\ errors' = 0
    /\ i' = 0
    /\ calls' = <<>>
    /\ progress' = 0
    /\ UNCHANGED <<parquet, BATCH_SIZE, sink, copyVars>>

\* ------------------------------------------------------------------ CSV
\* parquet-to-csv.py lines 14-20 on one row: no NaN -> None replacement
\* here, the name is cut at "$".
CsvRow(columns, raw) ==
    LET cols == {lower(c) : c \in columns}
        kept == IF INDEX \in cols THEN cols \ {INDEX} ELSE cols
        cell(f) == raw[CHOOSE c \in columns : lower(c) = f]
    IN  [f \in kept |->
            IF f = NAME /\ NAME \in kept THEN SplitDollar(cell(f)) ELSE cell(f)]

\* DataFrame.to_csv(na_rep='\\N') on one cell: a missing cell is written as
\* the two characters \N, a string as its characters.
ToCsv(v) == IF v.t = "str" THEN v.s ELSE NullTok

\* The file keeps the frame's column order: key, name, then any other.
ColumnOrder(cols) ==
    (IF KEY \in cols THEN <<KEY>> ELSE <<>>)
    \o (IF NAME \in cols THEN <<NAME>> ELSE <<>>)
    \o (IF INDEX \in cols THEN <<INDEX>> ELSE <<>>)

CsvLine(order, row) == [j \in 1..Len(order) |-> ToCsv(row[order[j]])]

\* COPY ... WITH (FORMAT CSV, NULL '\N') on one field: the unquoted text \N
\* is NULL, any other text (the empty one too) is that string.
FromCsv(text) == IF text = NullTok THEN Null ELSE Str(text)

\* The column list of the COPY statement, lines 48-60, on the columns kept.
CopyColumns == <<KEY, NAME>>

ParseLine(line) == [f \in Fields |->
    FromCsv(line[CHOOSE j \in 1..Len(CopyColumns) : CopyColumns[j] = f])]

\* A line the table cannot take: wrong number of fields, no key, or a key
\* that a stored or already copied row has.
Violates(table, pending, line) ==
    \/ Len(line) # Len(CopyColumns)
    \/ ParseLine(line)[KEY] = Null
    \/ HasKey(table \o pending, ParseLine(line)[KEY])

\* The process ends with the transaction open: the server rolls it back.
RollbackMutant(table, pending) == table \o pending
Rollback(table, pending) == table

\* parquet-to-csv.py, the whole script.
Convert ==
    /\ pc = "convert"
    /\ LET rows  == [j \in 1..Len(parquet.rows) |->
                        CsvRow(parquet.columns, parquet.rows[j])]
           order == ColumnOrder({lower(c) : c \in parquet.columns} \ {INDEX})
       IN  csv' = [header |-> order,
                   lines  |-> [j \in 1..Len(rows) |-> CsvLine(order, rows[j])]]
    /\ pc' = "connect"
    /\ UNCHANGED <<parquet, BATCH_SIZE, run, simpleVars, sink, prev, txn,
                   copied, count, failed_at>>

\* import-csv-direct.py lines 27-44: connect, open the file, skip the header.
Connect ==
    /\ pc = "connect"
    /\ csv.header # <<>>
    /\ txn' = <<>>
    /\ copied' = 0
    /\ pc' = "copy"
    /\ UNCHANGED <<parquet, BATCH_SIZE, run, simpleVars, sink, prev, csv,
                   count, failed_at>>

\* Lines 46-65, one data line taken by the COPY.
CopyRow ==
    /\ pc = "copy"
    /\ copied < Len(csv.lines)
    /\ ~Violates(sink, txn, csv.lines[copied + 1])
    /\ txn' = Append(txn, ParseLine(csv.lines[copied + 1]))
    /\ copied' = copied + 1
    /\ UNCHANGED <<parquet, BATCH_SIZE, pc, run, simpleVars, sink, prev, csv,
                   count, failed_at>>

\* Lines 46-65, end of input: copy_expert returns.
CopyEnd ==
    /\ pc = "copy"
    /\ copied = Len(csv.lines)
    /\ pc' = "commit"
    /\ UNCHANGED <<parquet, BATCH_SIZE, run, simpleVars, sink, prev, copyVars>>

\* Line 67.
Commit ==
    /\ pc = "commit"
    /\ sink' = sink \o txn
    /\ txn' = <<>>
    /\ pc' = "verify"
    /\ UNCHANGED <<parquet, BATCH_SIZE, run, simpleVars, prev, csv, copied,
                   count, failed_at>>

\* Lines 69-77.
Verify ==
    /\ pc = "verify"
    /\ count' = <<Len(sink)>>
    /\ pc' = "exit0"
    /\ UNCHANGED <<parquet, BATCH_SIZE, run, simpleVars, sink, prev, csv, txn,
                   copied, failed_at>>

\* Lines 79-81: any exception of the try block ends the process with exit
\* code 1; what the transaction held is rolled back.
Raise ==
    /\ pc \in {"connect", "copy", "commit", "verify"}
    /\ failed_at' = pc
    /\ sink' = Rollback(sink, txn)
    /\ txn' = <<>>
    /\ pc' = "exit1"
    /\ UNCHANGED <<parquet, BATCH_SIZE, run, simpleVars, prev, csv, copied,
                   count>>

\* import-csv-direct.py is started again over the same file.
RerunCopy ==
    /\ pc \in {"exit0", "exit1"}
    /\ run = "first"
    /\ run' = "second"
    /\ prev' = [sink |-> sink, errors |-> 0]
    /\ pc' = "connect"
    /\ txn' = <<>>
    /\ copied' = 0
    /\ count' = <<>>
    /\ failed_at' = ""
    /\ UNCHANGED <<parquet, BATCH_SIZE, simpleVars, sink, csv>>

\* One run of either pipeline.
Next ==
    \/ Load \/ BatchOk \/ BatchFail \/ Summary
    \/ Convert \/ Connect \/ CopyRow \/ CopyEnd \/ Commit \/ Verify
    \/ Raise

Spec == Init /\ [][Next]_vars

\* ------------------------------------------------------------------ reruns
\* Either import script run a second time over the same file.
TwiceRows ==
    [Organisationsidentitet : {None, Str(<<"1">>), Str(<<"2">>)},
     Organisationsnamn : {NaN, Str(<<"a", "$", "1">>)},
     __index_level_0__ : {Int0}]

TwiceParquets ==
    { [columns |-> RawColumns(TRUE), rows |-> rs] :
        rs \in UNION { [1..n -> TwiceRows] : n \in 0..MaxRows } }

InitTwice == InitWith(TwiceParquets, {"start", "convert"}, Tables)

NextTwice == Next \/ Rerun \/ RerunCopy

SpecTwice == InitTwice /\ [][NextTwice]_vars

\* ------------------------------------------------------------------ batcher
\* The upsert script alone, over longer inputs of keyed rows.
MaxBatcherRows == 6

BatcherRows ==
    [Organisationsidentitet : {Empty, Str(<<"1">>)},
     Organisationsnamn : {Str(<<"a", "$", "1">>)},
     __index_level_0__ : {Int0}]

BatcherParquets ==
    { [columns |-> RawColumns(TRUE), rows |-> rs] :
        rs \in UNION { [1..n -> BatcherRows] : n \in 0..MaxBatcherRows } }

InitBatcher == InitWith(BatcherParquets, {"start"}, {<<>>})

NextSimple == Load \/ BatchOk \/ BatchFail \/ Summary

SpecBatcher == InitBatcher /\ [][NextSimple]_vars

\* ------------------------------------------------------------------ properties
\* The cell of field f in row j of the snapshot file, as it was read.
Raw(j, f) == parquet.rows[j][CHOOSE c \in parquet.columns : lower(c) = f]

NativeAbsent(v) == v.t \in {"None", "NaN"}
AnyAbsent(v)    == NativeAbsent(v) \/ v = Empty \/ v = BackslashN

AllNativeAbsent(j) == \A f \in Fields : NativeAbsent(Raw(j, f))
AllAnyAbsent(j)    == \A f \in Fields : AnyAbsent(Raw(j, f))

InSimple == pc \in {"loop", "done"}

\* Positions in the file of the rows of the chunk a call was built from.
Chunk(c) == { j \in 1..Len(parquet.rows) :
                /\ j > (c.batch_num - 1) * BATCH_SIZE
                /\ j <= c.batch_num * BATCH_SIZE }

\* The k-th smallest member of a set of positions.
Kth(S, k) == CHOOSE j \in S : Cardinality({x \in S : x < j}) = k - 1

RECURSIVE Sum(_)
Sum(nums) == IF nums = <<>> THEN 0 ELSE Head(nums) + Sum(Tail(nums))

RECURSIVE Concat(_)
Concat(seqs) == IF seqs = <<>> THEN <<>> ELSE Head(seqs) \o Concat(Tail(seqs))

\* Rows the loop has left out so far, from what line 68 prints for each
\* batch; the script keeps no counter of its own for them.
DroppedIn(c) == Len(c.batch) - Len(c.records)
Skipped == Sum([j \in 1..Len(calls) |-> DroppedIn(calls[j])])

FailedCalls == { j \in 1..Len(calls) : ~calls[j].ok }
ErroredIn(c) == IF c.ok THEN 0 ELSE Len(c.records)
ImportedIn(c) == IF c.ok THEN Len(c.records) ELSE 0
Errored == Sum([j \in 1..Len(calls) |-> ErroredIn(calls[j])])
Accepted == Sum([j \in 1..Len(calls) |-> ImportedIn(calls[j])])

\* The records of the accepted calls of this run, in the order applied.
AcceptedRecords(c) == IF c.ok THEN c.records ELSE <<>>
Applied == Concat([j \in 1..Len(calls) |-> AcceptedRecords(calls[j])])

RowsWithKey(k) == { r \in 1..Len(sink) : sink[r][KEY] = k }
UniqueKeys == \A r1, r2 \in 1..Len(sink) :
                 sink[r1][KEY] = sink[r2][KEY] => r1 = r2

Ceil(n, c) == CHOOSE k \in 0..n : k * c >= n /\ (k = 0 \/ (k - 1) * c < n)

\* C1: a second upsert run over the same file, every batch of both runs
\* accepted, leaves the table as the first run left it; no key is ever held
\* by two rows; the row of a key carries the fields of the record applied
\* last for that key.
C1_Idempotent ==
    /\ UniqueKeys
    /\ (pc = "done" /\ run = "second" /\ prev.errors = 0 /\ errors = 0)
          => sink = prev.sink
    /\ InSimple =>
          \A a \in 1..Len(Applied) :
             (\A b \in (a + 1)..Len(Applied) : Applied[b][KEY] # Applied[a][KEY])
             => \A r \in RowsWithKey(Applied[a][KEY]) :
                   \A f \in DOMAIN Applied[a] : sink[r][f] = Applied[a][f]

\* Two accepted runs in which one key came in two batches with two contents.
C1_Witness ==
    /\ pc = "done" /\ run = "second" /\ prev.errors = 0 /\ errors = 0
    /\ Len(sink) >= 1
    /\ \E a, b \in 1..Len(Applied) :
          /\ a < b
          /\ Applied[a][KEY] = Applied[b][KEY]
          /\ Applied[a] # Applied[b]

\* C2: whichever calls fail, every batch 1..total_batches is attempted in
\* order, the summary is reached with that many calls made, and the error
\* count is the number of failed calls.
C2_BatchIsolation ==
    /\ InSimple => /\ errors = Cardinality(FailedCalls)
                   /\ \A j \in 1..Len(calls) : calls[j].batch_num = j
    /\ pc = "done" => /\ Len(calls) = Ceil(total_rows, BATCH_SIZE)
                      /\ Len(calls) = total_batches

\* Batch 2 of 3 failed, batch 3 was processed, the summary says one error.
C2_Witness ==
    /\ pc = "done" /\ Len(calls) = 3
    /\ calls[1].ok /\ ~calls[2].ok /\ calls[3].ok
    /\ errors = 1 /\ imported = 2

\* C3: when the COPY fails, at whichever line, the table is what it was
\* before the run, the verification count was not taken and the process has
\* ended with exit code 1.
C3_FatalIsolation ==
    failed_at = "copy" =>
        /\ pc = "exit1"
        /\ sink = prev.sink
        /\ txn = <<>>
        /\ count = <<>>

\* The COPY failed on line 3 of 3, after two lines had been taken.
C3_Witness ==
    /\ failed_at = "copy" /\ pc = "exit1"
    /\ Len(csv.lines) = 3 /\ copied = 2

\* C4: after an upsert run without an errored batch, every row of the file
\* that is not left out as empty has exactly one table row with its key.
C4_Complete ==
    (pc = "done" /\ errors = 0) =>
        \A j \in 1..Len(parquet.rows) :
            ~AllNativeAbsent(j) =>
                /\ Raw(j, KEY).t = "str"
                /\ Cardinality(RowsWithKey(Raw(j, KEY))) = 1

\* A clean first run that sent two keyed rows and left an empty one out.
C4_Witness ==
    /\ pc = "done" /\ errors = 0 /\ run = "first"
    /\ Len(sink) = 2 /\ Skipped = 1 /\ Len(calls) >= 2

\* C5: the chunks taken are consecutive slices of the frame that put
\* together give the frame; there are ceil(n/c) of them, each but the last
\* of c rows, the last of n - c*(ceil(n/c)-1) rows.
C5_BatcherCoverage ==
    LET chunks == [j \in 1..Len(calls) |-> calls[j].batch]
        n == total_rows
        c == BATCH_SIZE
    IN  /\ InSimple => Concat(chunks) = SubSeq(df, 1, Min(i, n))
        /\ pc = "done" =>
              /\ Concat(chunks) = df
              /\ Len(chunks) = Ceil(n, c)
              /\ \A j \in 1..(Len(chunks) - 1) : Len(chunks[j]) = c
              /\ Len(chunks) > 0 =>
                    Len(chunks[Len(chunks)]) = n - c * (Ceil(n, c) - 1)

\* Five rows in chunks of two: sizes 2, 2, 1.
C5_Witness ==
    /\ pc = "done" /\ total_rows = 5 /\ BATCH_SIZE = 2
    /\ Len(calls) = 3
    /\ Len(calls[1].batch) = 2 /\ Len(calls[2].batch) = 2
    /\ Len(calls[3].batch) = 1
    /\ df[1] # df[2]

C8_AsStated ==
    \A a \in 1..Len(calls) :
        /\ Len(calls[a].records) >= 1
        /\ Len(calls[a].records) <= BATCH_SIZE

\* C9: a failed call leaves the table and the imported count as they were
\* and adds one to the error count; an accepted call adds the number of its
\* records to the imported count and leaves the error count.
C9_Frame ==
    [][ Len(calls') = Len(calls) + 1 =>
          LET c == calls'[Len(calls')]
          IN  IF c.ok
              THEN /\ imported' = imported + Len(c.records)
                   /\ errors' = errors
              ELSE /\ sink' = sink
                   /\ imported' = imported
                   /\ errors' = errors + 1 ]_vars

\* An accepted call of a short last chunk after a failed call, on a table
\* that already held a row.
C9_Witness ==
    /\ pc = "loop" /\ Len(calls) = 3
    /\ calls[1].ok /\ ~calls[2].ok /\ calls[3].ok
    /\ Len(calls[2].records) = 1
    /\ errors = 1 /\ imported = 2 /\ Len(sink) = 2 /\ prev.sink # <<>>

\* C10: the imported count stays within 0..total_rows and never decreases
\* during a run, the percentage printed is imported/total_rows and at most
\* 100, and at the summary imported + rows left out + records of errored
\* batches = total_rows.
C10_Accounting ==
    /\ [](/\ 0 <= imported /\ imported <= total_rows
          /\ progress <= 100
          /\ (InSimple /\ \E a \in 1..Len(calls) : calls[a].ok) =>
                /\ progress * total_rows <= imported * 100
                /\ imported * 100 < (progress + 1) * total_rows
          /\ InSimple => imported = Accepted
          /\ pc = "done" =>
                imported + Skipped + Errored = total_rows)
    /\ [][run' = run => imported' >= imported]_vars

\* A summary with all three kinds of rows: imported, left out and errored.
C10_Witness ==
    /\ pc = "done" /\ total_rows = 3
    /\ imported = 1 /\ Skipped = 1 /\ Errored = 1
    /\ progress = 33
====
